---- MODULE Spec2Model ----
(***************************************************************************)
(* egui-directory-combobox: the directory tree (DirectoryNode), its        *)
(* builder and queries, and the selection cursor of DirectoryComboBox      *)
(* (set_selection, select_next_file / select_previous_file, and the        *)
(* widget pass with its clicks), modelled from src/src/lib.rs.             *)
(*                                                                         *)
(* Paths are sequences of component names (naturals); <<>> is the          *)
(* filesystem root "/".  Option<T> is a sequence of length 0 (None) or 1   *)
(* (Some).  A DirectoryNode is a record [kind, path, children].            *)
(***************************************************************************)
EXTENDS Naturals, Sequences, FiniteSets, TLC

VARIABLES
    shape,              \* the filesystem: the entry kinds of the listed directories
    roots,              \* DirectoryComboBox.roots
    filter,             \* DirectoryComboBox.filter
    select_files_only,  \* DirectoryComboBox.select_files_only
    back_button,        \* DirectoryComboBox.back_button
    selected_path,      \* DirectoryComboBox.selected_path
    selected_file,      \* DirectoryComboBox.selected_file
    last,               \* the last operation, the cursor before it when it was a step,
                        \* and whether it left no selected_path where a file was chosen
    pc,                 \* try_from_path: position of the running build
    arg,                \* try_from_path: the path of the pending call
    stack,              \* try_from_path: the frames of the directories being listed
    retval,             \* try_from_path: the value a call returned
    build_path,         \* the path the build was asked for
    query               \* find_parent_directory: the node, the path and the answer

vars == <<shape, roots, filter, select_files_only, back_button, selected_path,
          selected_file, last, pc, arg, stack, retval, build_path, query>>

cbVars == <<roots, filter, select_files_only, back_button, selected_path,
            selected_file, last>>
buildVars == <<pc, arg, stack, retval, build_path>>

(***************************************************************************)
(* Bounds of the model.                                                    *)
(***************************************************************************)
MaxLen == 3      \* entries of a listed directory
MaxDepth == 1    \* levels of fully listed directories below the top directory
MaxStack == 4    \* frames of a build before the model stops following it

(***************************************************************************)
(* Option and paths.                                                       *)
(***************************************************************************)
None == <<>>
Some(x) == <<x>>

\* Path::starts_with: component-wise prefix
StartsWith(p, base) ==
    /\ Len(base) <= Len(p)
    /\ \A i \in 1..Len(base) : p[i] = base[i]

\* Path::parent
Parent(p) == IF p = <<>> THEN None ELSE Some(SubSeq(p, 1, Len(p) - 1))

FileName(p) == p[Len(p)]

(***************************************************************************)
(* The filesystem.  The top directory <<0>> lists Len(shape) entries named *)
(* 1..Len(shape); entry i has kind shape[i]:                               *)
(*   "F" regular file, "D" directory, "Lout" symbolic link to the          *)
(*   directory <<2>> outside the top directory, "Lup" symbolic link to the *)
(*   top directory, "Lbad" dangling symbolic link.                         *)
(* The last "D" entry of a directory lists the same entries again, down to *)
(* MaxDepth; one level further down it lists the first entry alone; every  *)
(* other directory is empty.  Beside the top directory:                    *)
(*   <<1>> a directory holding the file <<1,1>> and the link <<1,2>> to    *)
(*   the top directory; <<2>> a directory holding the empty directory      *)
(*   <<2,1>>.                                                              *)
(***************************************************************************)
Top == <<0>>
Kinds == {"F", "D", "Lout", "Lup", "Lbad"}

Shapes(K) == UNION {[1..n -> K] : n \in 0..MaxLen}

\* the last "D" entry of the listing, 0 when it has none
RECURSIVE LastDirectory(_, _)
LastDirectory(s, i) ==
    IF i = 0 THEN 0 ELSE IF s[i] = "D" THEN i ELSE LastDirectory(s, i - 1)

SpineIdx(s) == LastDirectory(s, Len(s))

\* the first n components of p are the top directory and then, n - 1 times,
\* its last "D" entry
OnSpine(s, p, n) ==
    /\ p[1] = 0
    /\ \/ n = 1
       \/ LET spine == SpineIdx(s) IN spine # 0 /\ \A i \in 2..n : p[i] = spine

\* the names the directory at the first n components of p lists: the whole
\* listing down to MaxDepth, its first entry alone one level further down
ListedNames(s, p, n) ==
    IF n >= 1 /\ n <= MaxDepth + 2 /\ OnSpine(s, p, n)
    THEN IF n <= MaxDepth + 1 THEN 1..Len(s) ELSE 1..1
    ELSE {}

\* what lies at the path p, none of whose ancestors is a symbolic link
KindAt(s, p) ==
    IF p = <<>> THEN "D"
    ELSE IF p[1] = 0 THEN
        IF Len(p) = 1 THEN "D"
        ELSE IF p[Len(p)] \in ListedNames(s, p, Len(p) - 1)
             THEN s[p[Len(p)]]
             ELSE "none"
    ELSE IF p = <<1>> THEN "D"
    ELSE IF p = <<1, 1>> THEN "F"
    ELSE IF p = <<1, 2>> THEN "Lup"
    ELSE IF p = <<2>> THEN "D"
    ELSE IF p = <<2, 1>> THEN "D"
    ELSE "none"

LinkTarget(k) ==
    IF k = "Lout" THEN <<2>> ELSE IF k = "Lup" THEN Top ELSE <<3>>

IsLink(k) == k \in {"Lout", "Lup", "Lbad"}

\* canonicalize: resolves the components left to right, following links;
\* None when a component does not exist or a file is used as a directory
RECURSIVE Resolve(_, _, _, _)
Resolve(s, cur, p, i) ==
    IF i > Len(p) THEN Some(cur)
    ELSE LET q == Append(cur, p[i])
             k == KindAt(s, q)
         IN IF k = "D" THEN Resolve(s, q, p, i + 1)
            ELSE IF k = "F" THEN (IF i = Len(p) THEN Some(q) ELSE None)
            ELSE IF IsLink(k) /\ KindAt(s, LinkTarget(k)) = "D"
                 THEN Resolve(s, LinkTarget(k), p, i + 1)
                 ELSE None

canonicalize(s, p) == Resolve(s, <<>>, p, 1)

\* Path::is_dir, Path::is_file.  The code asks them of canonical paths and of
\* their parents only, where no component is a link: the answer is the kind
\* of what lies at the path, false when nothing does
is_dir(s, p) == KindAt(s, p) = "D"

is_file(s, p) == KindAt(s, p) = "F"

\* std::fs::create_dir_all on a path that canonicalize returned (it exists):
\* mkdir fails, and the call succeeds only when the path is a directory
create_dir_all(s, p) == is_dir(s, p)

\* std::fs::read_dir of a canonical directory: the entries' names, in listing order
read_dir(s, p) ==
    IF p # <<>> /\ ListedNames(s, p, Len(p)) # {}
    THEN [i \in 1..Cardinality(ListedNames(s, p, Len(p))) |-> i]
    ELSE IF p = <<>> THEN <<0, 1, 2>>
    ELSE IF p = <<1>> THEN <<1, 2>>
    ELSE IF p = <<2>> THEN <<1>>
    ELSE <<>>

(***************************************************************************)
(* DirectoryNode.                                                          *)
(***************************************************************************)
File(p) == [kind |-> "File", path |-> p, children |-> <<>>]
Directory(p, ch) == [kind |-> "Directory", path |-> p, children |-> ch]

\* DirectoryNode::path
path(n) == n.path

\* mutant: the directory answers for itself before it asks its children
find_parent_directory_shallow(n, p) ==
    IF n.kind = "File" THEN None
    ELSE IF StartsWith(p, n.path) THEN Some(n) ELSE None

\* DirectoryNode::find_parent_directory
RECURSIVE find_parent_directory(_, _)
RECURSIVE FirstFound(_, _, _)
FirstFound(children, p, i) ==
    IF i > Len(children) THEN None
    ELSE LET found == find_parent_directory(children[i], p)
         IN IF found # None THEN found ELSE FirstFound(children, p, i + 1)

find_parent_directory(n, p) ==
    IF n.kind = "File" THEN None
    ELSE IF StartsWith(p, n.path)
         THEN LET found == FirstFound(n.children, p, 1)
              IN IF found # None THEN found ELSE Some(n)
         ELSE None

\* the tree a listing of the filesystem gives: every entry of a directory
\* is a node, in listing order
RECURSIVE Snapshot(_, _)
Snapshot(s, p) ==
    IF KindAt(s, p) = "F" THEN File(p)
    ELSE Directory(p, [i \in 1..Len(read_dir(s, p)) |->
                          Snapshot(s, Append(p, read_dir(s, p)[i]))])

\* DirectoryComboBox::new_from_nodes, given the entries of the top directory
new_from_nodes(s) == Snapshot(s, Top).children

(***************************************************************************)
(* The selection cursor: DirectoryComboBox.selected_path / selected_file.  *)
(***************************************************************************)
Cursor(sp, sf) == [path |-> sp, file |-> sf]

\* the filter predicate: None, or Some(f) with f accepting the files whose
\* name is in a given set; filter.as_ref().map_or(true, |f| f(file_path))
FilterAccepts(flt, p) == flt = None \/ FileName(p) \in flt[1]

Reverse(seq) == [i \in 1..Len(seq) |-> seq[Len(seq) + 1 - i]]

\* navigate_nodes, the wrap-around loop: the first File entry of the walked
\* order decides, selected when the filter accepts it
RECURSIVE WrapAround(_, _, _, _)
WrapAround(iter, i, flt, cur) ==
    IF i > Len(iter) THEN cur
    ELSE IF iter[i].kind = "File"
         THEN IF FilterAccepts(flt, iter[i].path)
              THEN Cursor(Some(iter[i].path), Some(iter[i].path))
              ELSE cur
         ELSE WrapAround(iter, i + 1, flt, cur)

\* mutant: the first loop takes the next File entry without asking the filter
RECURSIVE WalkSiblings_unfiltered(_, _, _, _, _)
WalkSiblings_unfiltered(iter, i, found_selected, flt, cur) ==
    IF i > Len(iter)
    THEN IF found_selected THEN WrapAround(iter, 1, flt, cur) ELSE cur
    ELSE IF iter[i].kind = "File"
         THEN IF iter[i].path = cur.file[1]
              THEN WalkSiblings_unfiltered(iter, i + 1, TRUE, flt, cur)
              ELSE IF found_selected
                   THEN Cursor(Some(iter[i].path), Some(iter[i].path))
                   ELSE WalkSiblings_unfiltered(iter, i + 1, found_selected, flt, cur)
         ELSE WalkSiblings_unfiltered(iter, i + 1, found_selected, flt, cur)

\* navigate_nodes, the first loop: after the selected file is met, the first
\* other File entry the filter accepts is selected
RECURSIVE WalkSiblings(_, _, _, _, _)
WalkSiblings(iter, i, found_selected, flt, cur) ==
    IF i > Len(iter)
    THEN IF found_selected THEN WrapAround(iter, 1, flt, cur) ELSE cur
    ELSE IF iter[i].kind = "File"
         THEN IF iter[i].path = cur.file[1]
              THEN WalkSiblings(iter, i + 1, TRUE, flt, cur)
              ELSE IF found_selected /\ FilterAccepts(flt, iter[i].path)
                   THEN Cursor(Some(iter[i].path), Some(iter[i].path))
                   ELSE WalkSiblings(iter, i + 1, found_selected, flt, cur)
         ELSE WalkSiblings(iter, i + 1, found_selected, flt, cur)

\* DirectoryComboBox::navigate_nodes
navigate_nodes(nodes, forward, flt, cur) ==
    IF cur.file = None THEN cur
    ELSE WalkSiblings(IF forward THEN nodes ELSE Reverse(nodes), 1, FALSE, flt, cur)

\* navigate_folder, the second loop: the first root with a containing directory
RECURSIVE NavigateInRoots(_, _, _, _, _)
NavigateInRoots(rts, i, forward, flt, cur) ==
    IF i > Len(rts) THEN cur
    ELSE LET parent == find_parent_directory(rts[i], cur.file[1])
         IN IF parent # None
            THEN navigate_nodes(parent[1].children, forward, flt, cur)
            ELSE NavigateInRoots(rts, i + 1, forward, flt, cur)

\* DirectoryComboBox::navigate_folder
navigate_folder(rts, forward, flt, cur) ==
    IF cur.file = None THEN cur
    ELSE IF \E i \in 1..Len(rts) : path(rts[i]) = cur.file[1]
         THEN navigate_nodes(rts, forward, flt, cur)
         ELSE NavigateInRoots(rts, 1, forward, flt, cur)

\* mutant: files-only mode takes a directory like a file
set_selection_any(s, files_only, request, cur) ==
    IF request = None THEN Cursor(None, None)
    ELSE LET c == canonicalize(s, request[1])
         IN IF c = None THEN cur
            ELSE IF is_file(s, c[1]) \/ (files_only /\ is_dir(s, c[1])) THEN Cursor(c, c)
            ELSE IF is_dir(s, c[1]) THEN Cursor(c, cur.file)
            ELSE cur

\* mutant: the requested path is used as it was given, not canonicalized
set_selection_raw(s, files_only, request, cur) ==
    IF request = None THEN Cursor(None, None)
    ELSE IF is_file(s, request[1]) THEN Cursor(request, request)
    ELSE IF ~files_only /\ is_dir(s, request[1]) THEN Cursor(request, cur.file)
    ELSE cur

\* DirectoryComboBox::set_selection
set_selection(s, files_only, request, cur) ==
    IF request = None THEN Cursor(None, None)
    ELSE LET c == canonicalize(s, request[1])
         IN IF c = None THEN cur
            ELSE IF files_only
                 THEN IF is_file(s, c[1]) THEN Cursor(c, c) ELSE cur
                 ELSE IF is_file(s, c[1]) THEN Cursor(c, c)
                 ELSE IF is_dir(s, c[1]) THEN Cursor(c, cur.file)
                 ELSE cur

(***************************************************************************)
(* The widget pass.  A click is [kind, path, depth]: "none" the entry      *)
(* 'None' of the root list, "back" the 'Back' button of the popup at       *)
(* depth, "entry" the selectable entry of a node.                          *)
(***************************************************************************)
Click(k, p, d) == [kind |-> k, path |-> p, depth |-> d]

\* nested_combobox_ui: what the pass shows of `nodes`, hence what can be clicked
RECURSIVE Shown(_, _, _, _, _)
Shown(nodes, depth, sp, flt, back) ==
    (IF depth = 0 THEN {Click("none", <<>>, 0)}
     ELSE IF back THEN {Click("back", <<>>, depth)} ELSE {})
    \cup UNION {
        IF nodes[i].kind = "File"
        THEN IF FilterAccepts(flt, nodes[i].path)
             THEN {Click("entry", nodes[i].path, depth)} ELSE {}
        ELSE {Click("entry", nodes[i].path, depth)}
             \cup (IF sp # None /\ StartsWith(sp[1], nodes[i].path)
                   THEN Shown(nodes[i].children, depth + 1, sp, flt, back)
                   ELSE {})
        : i \in 1..Len(nodes)}

\* nested_combobox_ui: selected_path after the click
Clicked(s, c, sp) ==
    IF c.kind = "none" THEN None
    ELSE IF c.kind = "entry" THEN Some(c.path)
    ELSE IF sp = None THEN None
    ELSE IF c.depth = 1 THEN None
    ELSE IF is_dir(s, sp[1]) THEN Parent(sp[1])
    ELSE IF is_file(s, sp[1])
         THEN (IF Parent(sp[1]) = None THEN None ELSE Parent(Parent(sp[1])[1]))
    ELSE sp

\* mutant: selected_file follows selected_path in either mode
SyncSelectedFile_copy(s, files_only, old_value, sp, sf) ==
    IF sp # old_value THEN sp ELSE sf

\* mutant: in files-only mode a selected_path that became None leaves selected_file
SyncSelectedFile_keep(s, files_only, old_value, sp, sf) ==
    IF sp # old_value
    THEN IF files_only
         THEN IF sp # None /\ is_file(s, sp[1]) THEN sp ELSE sf
         ELSE sp
    ELSE sf

\* <&mut DirectoryComboBox as egui::Widget>::ui, after the popups: selected_file
\* follows a changed selected_path
SyncSelectedFile(s, files_only, old_value, sp, sf) ==
    IF sp # old_value
    THEN IF files_only
         THEN IF sp # None
              THEN IF is_file(s, sp[1]) THEN sp ELSE sf
              ELSE None
         ELSE sp
    ELSE sf

\* DirectoryComboBox::selected, DirectoryComboBox::selected_path
selected(cur) == cur.file
selected_path_of(cur) == cur.path

(***************************************************************************)
(* The combo box as a state machine.                                       *)
(***************************************************************************)
NoBuild ==
    /\ pc = "idle" /\ arg = None /\ stack = <<>> /\ retval = None /\ build_path = None
NoQuery == query = [node |-> None, path |-> <<>>, answer |-> None, asked |-> FALSE]

NoCursor == Cursor(None, None)
Last(op, cur) == [op |-> op, old |-> cur, cleared |-> FALSE]

\* the record of an operation that may clear the cursor: set_selection, a widget pass
LastClearing(op, sf, sp_after) ==
    [op |-> op, old |-> NoCursor, cleared |-> (sf # None /\ sp_after = None)]

\* no filter, or a filter accepting some of the names the files of the listing have
Filters(s) == {None} \cup {Some(S) : S \in SUBSET {i \in 1..Len(s) : s[i] = "F"}}

\* the listed directory at depth d: the top directory, then the last "D" entries
SpinePath(s, d) == Top \o [j \in 1..d |-> SpineIdx(s)]

\* the paths a caller may hand to set_selection: every entry of the listed
\* directories, the top directory, the directory, the file and the link beside
\* it, a path through that link, and a path that does not exist
Requests(s) ==
    {Top, <<1>>, <<1, 1>>, <<1, 2>>, <<1, 2, 1>>, <<1, 3>>}
    \cup {Append(SpinePath(s, d), i) :
             d \in {e \in 0..MaxDepth : e = 0 \/ SpineIdx(s) # 0}, i \in 1..Len(s)}
    \cup {Append(SpinePath(s, MaxDepth + 1), 1) : i \in {j \in {1} : SpineIdx(s) # 0}}

\* DirectoryComboBox::default with the roots and the options of the builder methods
Init ==
    /\ shape \in Shapes({"F", "D"})
    /\ roots = new_from_nodes(shape)
    /\ filter \in Filters(shape)
    /\ select_files_only \in BOOLEAN
    /\ back_button \in BOOLEAN
    /\ selected_path = None
    /\ selected_file = None
    /\ last = Last("new", NoCursor)
    /\ NoBuild
    /\ NoQuery

SetSelection ==
    \E request \in {None} \cup {Some(p) : p \in Requests(shape)} :
        LET cur == set_selection(shape, select_files_only, request,
                                 Cursor(selected_path, selected_file))
        IN /\ selected_path' = cur.path
           /\ selected_file' = cur.file
           /\ last' = LastClearing("set_selection", selected_file, cur.path)
           /\ UNCHANGED <<shape, roots, filter, select_files_only, back_button,
                          buildVars, query>>

SelectNextFile ==
    LET cur == navigate_folder(roots, TRUE, filter, Cursor(selected_path, selected_file))
    IN /\ selected_path' = cur.path
       /\ selected_file' = cur.file
       /\ last' = Last("select_next_file", Cursor(selected_path, selected_file))
       /\ UNCHANGED <<shape, roots, filter, select_files_only, back_button,
                      buildVars, query>>

SelectPreviousFile ==
    LET cur == navigate_folder(roots, FALSE, filter, Cursor(selected_path, selected_file))
    IN /\ selected_path' = cur.path
       /\ selected_file' = cur.file
       /\ last' = Last("select_previous_file", Cursor(selected_path, selected_file))
       /\ UNCHANGED <<shape, roots, filter, select_files_only, back_button,
                      buildVars, query>>

\* one pass of the widget with one click on something it shows
Ui ==
    \E c \in Shown(roots, 0, selected_path, filter, back_button) :
        LET sp == Clicked(shape, c, selected_path)
        IN /\ selected_path' = sp
           /\ selected_file' = SyncSelectedFile(shape, select_files_only,
                                                selected_path, sp, selected_file)
           /\ last' = LastClearing("ui", selected_file, sp)
           /\ UNCHANGED <<shape, roots, filter, select_files_only, back_button,
                          buildVars, query>>

Next == SetSelection \/ SelectNextFile \/ SelectPreviousFile \/ Ui

Spec == Init /\ [][Next]_vars

(***************************************************************************)
(* DirectoryNode::try_from_path as a state machine: one frame per          *)
(* directory being listed, pc the position in the innermost call.          *)
(***************************************************************************)
Frame(p, entries, children) == [path |-> p, entries |-> entries, children |-> children]

NoComboBox ==
    /\ roots = <<>> /\ filter = None /\ select_files_only = FALSE /\ back_button = TRUE
    /\ selected_path = None /\ selected_file = None /\ last = Last("none", NoCursor)

\* the paths a build may be asked for
BuildPaths(s) ==
    {Top, <<1>>, <<1, 1>>, <<1, 2>>, <<1, 3>>, <<2>>} \cup {<<0, i>> : i \in 1..Len(s)}

BuildInit ==
    /\ shape \in Shapes(Kinds)
    /\ build_path \in {Some(p) : p \in BuildPaths(shape)}
    /\ pc = "call"
    /\ arg = build_path
    /\ stack = <<>>
    /\ retval = None
    /\ NoComboBox
    /\ NoQuery

\* try_from_path up to the listing: canonicalize, create_dir_all, then the kind
EnterPath(s, p) ==
    LET c == canonicalize(s, p)
    IN IF c = None THEN [pc |-> "return", retval |-> None, push |-> None]
       ELSE IF ~create_dir_all(s, c[1]) THEN [pc |-> "return", retval |-> None, push |-> None]
       ELSE IF is_dir(s, c[1])
            THEN [pc |-> "entries", retval |-> None,
                  push |-> Some(Frame(c[1], read_dir(s, c[1]), <<>>))]
       ELSE IF is_file(s, c[1])
            THEN [pc |-> "return", retval |-> Some(File(c[1])), push |-> None]
       ELSE [pc |-> "return", retval |-> None, push |-> None]

\* the guard of the listing loop: entry.path().starts_with(&path)
EntryIsListed(entry_path, dir_path) == StartsWith(entry_path, dir_path)

TryFromPathCall ==
    /\ pc = "call"
    /\ Len(stack) < MaxStack
    /\ LET r == EnterPath(shape, arg[1])
       IN /\ pc' = r.pc
          /\ retval' = r.retval
          /\ stack' = IF r.push = None THEN stack ELSE Append(stack, r.push[1])
    /\ arg' = None
    /\ UNCHANGED <<shape, cbVars, build_path, query>>

\* the loop over the entries of the innermost directory
TryFromPathEntries ==
    /\ pc = "entries"
    /\ LET n == Len(stack)
           f == stack[n]
       IN IF f.entries = <<>>
          THEN /\ retval' = Some(Directory(f.path, f.children))
               /\ stack' = SubSeq(stack, 1, n - 1)
               /\ pc' = "return"
               /\ arg' = None
          ELSE LET entry_path == Append(f.path, Head(f.entries))
               IN /\ stack' = [stack EXCEPT ![n].entries = Tail(f.entries)]
                  /\ retval' = None
                  /\ IF EntryIsListed(entry_path, f.path)
                     THEN pc' = "call" /\ arg' = Some(entry_path)
                     ELSE pc' = "entries" /\ arg' = None
    /\ UNCHANGED <<shape, cbVars, build_path, query>>

\* a call returns: to the caller of the build, or into the loop of the
\* enclosing directory, where `?` returns None at once
TryFromPathReturn ==
    /\ pc = "return"
    /\ LET n == Len(stack)
       IN IF n = 0
          THEN pc' = "done" /\ UNCHANGED <<stack, retval>>
          ELSE IF retval = None
               THEN /\ stack' = SubSeq(stack, 1, n - 1)
                    /\ pc' = "return"
                    /\ UNCHANGED retval
               ELSE /\ stack' = [stack EXCEPT ![n].children = Append(@, retval[1])]
                    /\ pc' = "entries"
                    /\ retval' = None
    /\ UNCHANGED <<shape, cbVars, arg, build_path, query>>

\* DirectoryComboBox::new_from_path on the node of DirectoryNode::from_path
RootsOf(root_node) ==
    IF root_node.kind = "Directory" THEN root_node.children ELSE <<root_node>>

NewFromPath ==
    /\ pc = "done"
    /\ IF retval = None
       THEN pc' = "panicked" /\ UNCHANGED roots
       ELSE pc' = "built" /\ roots' = RootsOf(retval[1])
    /\ UNCHANGED <<shape, filter, select_files_only, back_button, selected_path,
                   selected_file, last, arg, stack, retval, build_path, query>>

BuildNext == TryFromPathCall \/ TryFromPathEntries \/ TryFromPathReturn \/ NewFromPath

BuildSpec == BuildInit /\ [][BuildNext]_vars

(***************************************************************************)
(* DirectoryNode::find_parent_directory asked of one node and one path.    *)
(***************************************************************************)
\* a tree put together by hand from the public variants of DirectoryNode:
\* two sibling directories, the path of one a prefix of the other's
HandBuiltTree ==
    Directory(Top, <<Directory(<<0, 1>>, <<>>),
                     Directory(<<0, 1, 1>>, <<Directory(<<0, 1, 1, 1>>, <<>>)>>)>>)

RECURSIVE NodesOf(_)
NodesOf(n) == {n} \cup UNION {NodesOf(n.children[i]) : i \in 1..Len(n.children)}

QueryPaths(s) ==
    Requests(s) \cup {Append(p, 1) : p \in Requests(s)} \cup {<<0, 1, 1, 1, 1>>}

QueryInit ==
    /\ shape \in Shapes({"F", "D"})
    /\ \E n \in NodesOf(Snapshot(shape, Top)) \cup NodesOf(HandBuiltTree) :
       \E p \in QueryPaths(shape) :
           query = [node |-> Some(n), path |-> p, answer |-> None, asked |-> FALSE]
    /\ NoBuild
    /\ NoComboBox

FindParentDirectory ==
    /\ ~query.asked
    /\ query' = [query EXCEPT !.answer = find_parent_directory(query.node[1], query.path),
                              !.asked = TRUE]
    /\ UNCHANGED <<shape, cbVars, buildVars>>

QueryNext == FindParentDirectory

QuerySpec == QueryInit /\ [][QueryNext]_vars

(***************************************************************************)
(* Claims about the tree build (BuildSpec).                                *)
(***************************************************************************)
BuildSettled == pc \in {"done", "built", "panicked"}

\* the listing under the top directory holds files and directories only
PlainListing == \A i \in 1..Len(shape) : shape[i] \in {"F", "D"}

\* C7: a build of a path that canonicalizes to a regular file returns the File
\* node of the canonical path; a build of a directory tree of files and
\* directories returns the tree of its listing, and new_from_path gives the
\* children of that directory as roots.
C7_BuildGivesFileNodes ==
    BuildSettled =>
        LET c == canonicalize(shape, build_path[1])
        IN /\ (c # None /\ is_file(shape, c[1])) => retval = Some(File(c[1]))
           /\ (c # None /\ is_dir(shape, c[1]) /\ StartsWith(c[1], Top) /\ PlainListing)
                 => /\ retval = Some(Snapshot(shape, c[1]))
                    /\ pc = "built" => roots = Snapshot(shape, c[1]).children

RECURSIVE ChildrenUnderParent(_)
ChildrenUnderParent(n) ==
    \A i \in 1..Len(n.children) :
        /\ StartsWith(n.children[i].path, n.path)
        /\ ChildrenUnderParent(n.children[i])

\* C8: in the node of every successful build, every child's path starts with
\* the path of its enclosing Directory: an entry that canonicalizes to a place
\* outside its parent contributes no node.
C8_ChildrenUnderParent ==
    (BuildSettled /\ retval # None) => ChildrenUnderParent(retval[1])

\* C11: a build terminates with a node or with 'no node'.  try_from_path is a
\* function of its path on an unchanging filesystem, so a call for a directory
\* that is made while that directory is being listed makes the same calls
\* again and never returns; on a finite filesystem a build that never returns
\* must make such a call.  A build terminates exactly when the directories
\* being listed, one per frame of the recursion, are pairwise distinct.
C11_BuildTerminates ==
    \A i, j \in 1..Len(stack) : i < j => stack[i].path # stack[j].path

(***************************************************************************)
(* Claims about find_parent_directory (QuerySpec).                         *)
(***************************************************************************)
\* the directories of the subtree of n, each with its depth below n
RECURSIVE DirectoriesBelow(_, _)
DirectoriesBelow(n, d) ==
    IF n.kind = "File" THEN {}
    ELSE {[node |-> n, depth |-> d]}
         \cup UNION {DirectoriesBelow(n.children[i], d + 1) : i \in 1..Len(n.children)}

\* the deepest directories of the subtree of n whose path is a prefix of p
DeepestContaining(n, p) ==
    LET holding == {x \in DirectoriesBelow(n, 0) : StartsWith(p, x.node.path)}
    IN {x.node : x \in {y \in holding : \A z \in holding : z.depth <= y.depth}}

\* no directory of the subtree of n has two child directories with the path
\* of one a prefix of (or equal to) the path of the other
RECURSIVE SiblingsApart(_)
SiblingsApart(n) ==
    \A i \in 1..Len(n.children) :
        /\ SiblingsApart(n.children[i])
        /\ \A j \in 1..Len(n.children) :
               (i # j /\ n.children[i].kind = "Directory" /\ n.children[j].kind = "Directory")
                   => ~StartsWith(n.children[i].path, n.children[j].path)

FindsDeepest(n, p, answer) ==
    /\ n.kind = "File" => answer = None
    /\ (n.kind = "Directory" /\ ~StartsWith(p, n.path)) => answer = None
    /\ (n.kind = "Directory" /\ StartsWith(p, n.path) /\ p # n.path)
           => answer # None /\ answer[1] \in DeepestContaining(n, p)

\* C9 as stated: in every tree whose child paths lie under their parent's
\* path, a Directory asked for a path strictly under its own returns the
\* deepest Directory of its subtree whose path is a prefix of the path; a File
\* and a Directory that is no prefix of the path return not-found.
C9_FindsDeepestAsStated ==
    (query.asked /\ ChildrenUnderParent(query.node[1]))
        => FindsDeepest(query.node[1], query.path, query.answer)

\* C9 amended: the same, for the trees in which no two sibling directories
\* have paths that are prefixes of one another (every listed tree is one).
C9_FindsDeepest ==
    (query.asked /\ ChildrenUnderParent(query.node[1]) /\ SiblingsApart(query.node[1]))
        => FindsDeepest(query.node[1], query.path, query.answer)

\* C9 witness: a Directory of such a tree answered with a Directory deeper than itself
C9_Witness ==
    /\ query.asked
    /\ query.node[1].kind = "Directory"
    /\ ChildrenUnderParent(query.node[1]) /\ SiblingsApart(query.node[1])
    /\ query.answer # None
    /\ query.answer # query.node
    /\ query.answer[1] \in DeepestContaining(query.node[1], query.path)

(***************************************************************************)
(* Claims about the selection cursor (Spec).                               *)
(***************************************************************************)
StepOps == {"select_next_file", "select_previous_file"}

\* every sibling list of the tree: the root sequence and each child list
RECURSIVE ListsOf(_)
ListsOf(nodes) ==
    {nodes} \cup UNION {ListsOf(nodes[i].children) :
                           i \in {j \in 1..Len(nodes) : nodes[j].kind = "Directory"}}

FileEntryOf(l, f) == \E i \in 1..Len(l) : l[i] = File(f)
IsFileNode(rts, f) == \E l \in ListsOf(rts) : FileEntryOf(l, f)

\* the positions of the File entries of l that the filter accepts
Eligible(l, flt) ==
    {i \in 1..Len(l) : l[i].kind = "File" /\ FilterAccepts(flt, l[i].path)}

Least(S) == CHOOSE x \in S : \A y \in S : x <= y
Greatest(S) == CHOOSE x \in S : \A y \in S : y <= x

\* where a step from the File entry f of l should land, Eligible(l, flt) not empty
StepTarget(l, f, flt, forward) ==
    LET at == CHOOSE i \in 1..Len(l) : l[i] = File(f)
        past == {i \in Eligible(l, flt) : IF forward THEN i > at ELSE i < at}
    IN IF forward
       THEN l[IF past # {} THEN Least(past) ELSE Least(Eligible(l, flt))].path
       ELSE l[IF past # {} THEN Greatest(past) ELSE Greatest(Eligible(l, flt))].path

\* C1: a step from a File entry of a sibling list lands on the nearest
\* filter-accepted File entry strictly after (next) or before (previous) it,
\* and when there is none past it, on the first filter-accepted File entry of
\* the walked order, directories and rejected files being skipped.
C1_StepLandsOnNearestEligible ==
    [][\A l \in ListsOf(roots) :
         (/\ last'.op \in StepOps
          /\ selected_file # None
          /\ FileEntryOf(l, selected_file[1])
          /\ Eligible(l, filter) # {})
         => LET t == StepTarget(l, selected_file[1], filter, last'.op = "select_next_file")
            IN selected_path' = Some(t) /\ selected_file' = Some(t)]_vars

\* C2: from a cursor whose two fields hold the same filter-accepted File entry
\* of a sibling list, select_next_file followed at once by select_previous_file
\* restores the cursor when the list holds another eligible file; and a step
\* leaves the cursor as it was when that file is the only eligible one.
C2_NextThenPreviousRestores ==
    [][\A l \in ListsOf(roots) :
         /\ (/\ last.op = "select_next_file"
             /\ last'.op = "select_previous_file"
             /\ last.old.file # None
             /\ last.old.path = last.old.file
             /\ \E i \in Eligible(l, filter) : l[i].path = last.old.file[1]
             /\ \E i \in Eligible(l, filter) : l[i].path # last.old.file[1])
            => Cursor(selected_path', selected_file') = last.old
         /\ (/\ last'.op \in StepOps
             /\ selected_file # None
             /\ selected_path = selected_file
             /\ \E i \in Eligible(l, filter) : l[i].path = selected_file[1]
             /\ Cardinality(Eligible(l, filter)) = 1)
            => UNCHANGED <<selected_path, selected_file>>]_vars

\* C3 as stated: in files-only mode selected_file is None or the path of a File
\* node under some root.
C3_SelectedFileUnderRoot ==
    select_files_only => (selected_file = None \/ IsFileNode(roots, selected_file[1]))

\* C3 amended: in files-only mode selected_file is None, or a File node under
\* some root, or a regular file outside the tree, and it comes to hold a
\* regular file outside the tree through set_selection only.
C3_SelectedFileUnderRootOrRequested ==
    [][select_files_only =>
         \/ selected_file' = None
         \/ IsFileNode(roots, selected_file'[1])
         \/ /\ is_file(shape, selected_file'[1])
            /\ selected_file' = selected_file \/ last'.op = "set_selection"]_vars

\* C3 witness: files-only mode holds a regular file that is under no root
C3_Witness ==
    /\ select_files_only
    /\ last.op = "set_selection"
    /\ selected_file # None
    /\ is_file(shape, selected_file[1])
    /\ ~IsFileNode(roots, selected_file[1])

\* C4: with select_files_only false, selected() equals selected_path().
C4_SelectedIsSelectedPath ==
    ~select_files_only =>
        selected(Cursor(selected_path, selected_file))
            = selected_path_of(Cursor(selected_path, selected_file))

\* C5 as stated: in either mode selected_file is None or the path of a regular
\* file, never of a directory.
C5_SelectedFileIsAFile ==
    selected_file = None \/ is_file(shape, selected_file[1])

\* C5 amended: selected_file holds something other than a regular file only
\* with select_files_only false, it is then a directory, and it came to hold
\* it in a widget pass that copied selected_path; in files-only mode
\* selected_file is None or a regular file.
C5_SelectedFileIsAFileOrClickedDirectory ==
    [][(selected_file' # None /\ ~is_file(shape, selected_file'[1]))
         => /\ ~select_files_only
            /\ is_dir(shape, selected_file'[1])
            /\ \/ selected_file' = selected_file
               \/ last'.op = "ui" /\ selected_file' = selected_path']_vars

\* C5 witness: after a widget pass selected_file holds a directory
C5_Witness ==
    /\ last.op = "ui"
    /\ selected_file # None
    /\ is_dir(shape, selected_file[1])
    /\ selected_file = selected_path

\* the transition C6 states, from the cursor cur
RequestedCursor(request, cur) ==
    IF request = None THEN Cursor(None, None)
    ELSE LET c == canonicalize(shape, request[1])
         IN IF c = None THEN cur
            ELSE IF KindAt(shape, c[1]) = "F" THEN Cursor(c, c)
            ELSE IF KindAt(shape, c[1]) = "D" /\ ~select_files_only THEN Cursor(c, cur.file)
            ELSE cur

SiblingList(rts, f) ==
    IF \E i \in 1..Len(rts) : rts[i].path = f THEN Some(rts)
    ELSE LET holding == {x \in UNION {DirectoriesBelow(rts[i], 0) : i \in 1..Len(rts)} :
                            StartsWith(f, x.node.path)}
         IN IF holding = {} THEN None
            ELSE Some((CHOOSE x \in holding : \A y \in holding : y.depth <= x.depth)
                          .node.children)

\* C10: after a step the cursor is unchanged, or both fields hold the same
\* path, a filter-accepted File entry of the sibling list that held the
\* previous selected_file; with no selected_file, or no eligible file in the
\* sibling list, the cursor is unchanged.
C10_StepStaysAmongSiblings ==
    [][last'.op \in StepOps =>
         LET l == IF selected_file = None THEN None ELSE SiblingList(roots, selected_file[1])
         IN /\ \/ UNCHANGED <<selected_path, selected_file>>
               \/ /\ selected_path' = selected_file'
                  /\ selected_file' # None
                  /\ l # None
                  /\ FileEntryOf(l[1], selected_file[1])
                  /\ \E i \in Eligible(l[1], filter) : l[1][i].path = selected_file'[1]
            /\ (l = None \/ Eligible(l[1], filter) = {})
                   => UNCHANGED <<selected_path, selected_file>>]_vars

\* C10 witness: a step has moved the cursor from one file to another file,
\* both below the root list
C10_Witness ==
    /\ last.op \in StepOps
    /\ last.old.file # None
    /\ selected_file # None
    /\ selected_file # last.old.file
    /\ selected_path = selected_file
    /\ Len(selected_file[1]) > 2

\* C12: in every reachable state, in either selection mode, a combo box without
\* a selected_path has no selected_file: whatever clears the cursor (set_selection
\* with None, a click on 'None' or on 'Back' and the synchronisation that
\* follows) clears the chosen value with it, and no step sets one without the other.
C12_ValueNeverOutlivesCursor ==
    selected_path = None => selected_file = None

\* C12 witness: a widget pass in files-only mode has cleared the cursor of a
\* combo box that held a chosen file
C12_Witness ==
    /\ last.op = "ui"
    /\ last.cleared
    /\ select_files_only
    /\ selected_path = None
    /\ selected_file = None

====
